---- MODULE Spec2Model ----
(***************************************************************************)
(* A model of the Architecture-App Streamlit scripts (app.py, app2.py,     *)
(* app3.py, app4.py): the quantity parser parse_number_input, the oracle   *)
(* adapter get_tool_suggestions, the cost table estimate_tool_costs, the   *)
(* diagram builders and the submit handlers of the four variants.          *)
(*                                                                         *)
(* Program strings are sequences of one-character strings, so that         *)
(* lower(), replace(), strip(), the regular expression and capitalize()    *)
(* are computed character by character.  Python integers and the IEEE-754  *)
(* doubles of float() are unbounded / 53-bit quantities; they are carried  *)
(* as little-endian sequences of 15-bit limbs.                             *)
(***************************************************************************)
EXTENDS Integers, Sequences, FiniteSets, TLC

VARIABLES
    variant,          \* which script is running: "app", "app2", "app3", "app4"
    pc,               \* position of the script run
    data_sources,     \* the multiselect's value (a sequence of names)
    custom_requirement, \* the text area's value
    fields,           \* the seven dataset-configuration text inputs
    usage_tier,       \* the selectbox's value (app3)
    refresh_details,  \* the dict handed to get_tool_suggestions (None values before)
    oracle_calls,     \* calls of openai.ChatCompletion.create in this request
    tool_suggestions, \* what get_tool_suggestions returned (None before)
    flowchart,        \* the Digraph built for this request, its nodes and edges
    shown,            \* the st.* elements the run has displayed
    uncaught,         \* the exception that ended the run ("none" when none did)
    response_text,    \* the completion's reply in this request
    input_text,       \* the parser harness: the text handed to parse_number_input
    parsed,           \* the parser harness: what parse_number_input did with it
    cost_args,        \* the cost harness: (tool_suggestions, usage_tier)
    cost_rows         \* the cost harness: the rows estimate_tool_costs returned

vars == <<variant, pc, data_sources, custom_requirement, fields, usage_tier,
          refresh_details, oracle_calls, tool_suggestions, flowchart, shown,
          uncaught, response_text, input_text, parsed, cost_args, cost_rows>>

----------------------------------------------------------------------------
(* Characters and strings                                                  *)

LowerCase == <<"a","b","c","d","e","f","g","h","i","j","k","l","m",
               "n","o","p","q","r","s","t","u","v","w","x","y","z">>
UpperCase == <<"A","B","C","D","E","F","G","H","I","J","K","L","M",
               "N","O","P","Q","R","S","T","U","V","W","X","Y","Z">>
DigitChars == <<"0","1","2","3","4","5","6","7","8","9">>

Range(s) == {s[i] : i \in 1..Len(s)}

IsDigit(c) == c \in Range(DigitChars)
IsLower(c) == c \in Range(LowerCase)
IsUpper(c) == c \in Range(UpperCase)
IsSpace(c) == c \in {" ", "\t", "\n", "\r", "\f"}

DigitVal(c) == (CHOOSE i \in 1..10 : DigitChars[i] = c) - 1

\* str.lower(), one character
LowerChar(c) == IF IsUpper(c) THEN LowerCase[CHOOSE i \in 1..26 : UpperCase[i] = c] ELSE c
\* str.upper(), one character
UpperChar(c) == IF IsLower(c) THEN UpperCase[CHOOSE i \in 1..26 : LowerCase[i] = c] ELSE c

\* e evaluated once and handed to F
Bind(e, F(_)) == CHOOSE r \in {F(x) : x \in {e}} : TRUE
Bind2(e1, e2, F(_, _)) == CHOOSE r \in {F(x, y) : x \in {e1}, y \in {e2}} : TRUE

\* str.lower()
lower(s0) == Bind(s0, LAMBDA s : [i \in 1..Len(s) |-> LowerChar(s[i])])

\* str.replace(",", "")
IsNotComma(c) == c # ","
remove_commas(s) == SelectSeq(s, IsNotComma)

MinOf(S) == CHOOSE x \in S : \A y \in S : x <= y
MaxOf(S) == CHOOSE x \in S : \A y \in S : y <= x

\* str.strip(): leading and trailing whitespace removed
strip(s0) ==
    Bind(s0, LAMBDA s :
        Bind({i \in 1..Len(s) : ~IsSpace(s[i])}, LAMBDA keep :
            IF keep = {} THEN <<>> ELSE SubSeq(s, MinOf(keep), MaxOf(keep))))

\* the length of the longest run of characters satisfying P that starts at s[from]
RunLen(s0, from, P(_)) ==
    Bind(s0, LAMBDA s :
        Bind({i \in from..Len(s) : ~P(s[i])}, LAMBDA stops :
            IF stops = {} THEN (IF from > Len(s) THEN 0 ELSE Len(s) - from + 1)
            ELSE MinOf(stops) - from))

----------------------------------------------------------------------------
(* Python's unbounded integers: little-endian sequences of LimbBits-bit    *)
(* limbs without leading zero limbs; zero is the empty sequence.  Every    *)
(* operator evaluates its operands once, on entry.                         *)

\* the number of bits of a machine-sized natural
RECURSIVE Bits(_)
Bits(n) == IF n = 0 THEN 0 ELSE 1 + Bits(n \div 2)

Base == 2^15
LimbWidth == Bits(Base) - 1

Zero == <<>>
Limb(a, i) == IF i <= Len(a) THEN a[i] ELSE 0

\* Op folded over lo..hi from acc0, lowest index first.  The recursion halves
\* the range and the left half is evaluated before the right half starts, so
\* the depth of evaluation is logarithmic in the range.
RECURSIVE FoldRange(_, _, _, _)
FoldRange(Op(_, _), acc0, lo0, hi0) ==
    Bind2(lo0, hi0, LAMBDA lo, hi :
        IF lo > hi THEN acc0
        ELSE IF lo = hi THEN Bind(acc0, LAMBDA acc : Op(acc, lo))
        ELSE Bind(FoldRange(Op, acc0, lo, (lo + hi) \div 2), LAMBDA left :
                 FoldRange(Op, left, (lo + hi) \div 2 + 1, hi)))

\* leading zero limbs removed
Trim(a0) ==
    Bind(a0, LAMBDA a :
        Bind({i \in 1..Len(a) : a[i] # 0}, LAMBDA nz :
            IF nz = {} THEN <<>> ELSE SubSeq(a, 1, MaxOf(nz))))

\* a machine-sized natural as a big natural
FromNat(n) == Trim(<<n % Base, (n \div Base) % Base, n \div (Base * Base)>>)

\* -1, 0, 1 as a < b, a = b, a > b
Cmp(a0, b0) ==
    Bind2(a0, b0, LAMBDA a, b :
        IF Len(a) # Len(b) THEN (IF Len(a) < Len(b) THEN -1 ELSE 1)
        ELSE Bind({i \in 1..Len(a) : a[i] # b[i]}, LAMBDA D :
                 IF D = {} THEN 0
                 ELSE IF a[MaxOf(D)] < b[MaxOf(D)] THEN -1 ELSE 1))

\* limbs produced so far and the carry (or borrow) into the next limb
Carry(limbs, c) == [limbs |-> limbs, c |-> c]

\* the limbs and the last carry as one number
WithCarry(r0) == Bind(r0, LAMBDA r : IF r.c = 0 THEN r.limbs ELSE Append(r.limbs, r.c))

Add(a0, b0) ==
    Bind2(a0, b0, LAMBDA a, b :
        LET Step(acc, i) ==
                Bind(Limb(a, i) + Limb(b, i) + acc.c, LAMBDA t :
                    Carry(Append(acc.limbs, t % Base), t \div Base))
        IN  WithCarry(FoldRange(Step, Carry(<<>>, 0), 1,
                                IF Len(a) > Len(b) THEN Len(a) ELSE Len(b))))

\* a - b for a >= b
Sub(a0, b0) ==
    Bind2(a0, b0, LAMBDA a, b :
        LET Step(acc, i) ==
                Bind(a[i] - Limb(b, i) - acc.c, LAMBDA t :
                    IF t < 0 THEN Carry(Append(acc.limbs, t + Base), 1)
                    ELSE Carry(Append(acc.limbs, t), 0))
        IN  Trim(FoldRange(Step, Carry(<<>>, 0), 1, Len(a)).limbs))

\* a * k for 0 <= k < Base
MulSmall(a0, k0) ==
    Bind2(a0, k0, LAMBDA a, k :
        LET Step(acc, i) ==
                Bind(a[i] * k + acc.c, LAMBDA t :
                    Carry(Append(acc.limbs, t % Base), t \div Base))
        IN  IF k = 0 THEN <<>>
            ELSE WithCarry(FoldRange(Step, Carry(<<>>, 0), 1, Len(a))))

\* a * Base^n
ShiftLimbs(a0, n) ==
    Bind(a0, LAMBDA a : IF Len(a) = 0 THEN <<>> ELSE [i \in 1..n |-> 0] \o a)

Mul(a0, b0) ==
    Bind2(a0, b0, LAMBDA a, b :
        LET Step(acc, i) == Add(acc, ShiftLimbs(MulSmall(a, b[i]), i - 1))
        IN  FoldRange(Step, <<>>, 1, Len(b)))

\* a * 2^n
ShiftLeft(a, n0) ==
    Bind(n0, LAMBDA n : ShiftLimbs(MulSmall(a, 2^(n % LimbWidth)), n \div LimbWidth))

\* floor(a / 2^n)
ShiftRight(a0, n0) ==
    Bind2(a0, n0, LAMBDA a, n :
        Bind2(n \div LimbWidth, n % LimbWidth, LAMBDA d, r :
            IF d >= Len(a) THEN <<>>
            ELSE Trim([i \in 1..(Len(a) - d) |->
                         (a[i + d] \div 2^r) + (Limb(a, i + d + 1) % 2^r) * 2^(LimbWidth - r)])))

\* the number of bits of a big natural
BitLen(a0) ==
    Bind(a0, LAMBDA a : IF Len(a) = 0 THEN 0 ELSE (Len(a) - 1) * LimbWidth + Bits(a[Len(a)]))

IsOdd(a0) == Bind(a0, LAMBDA a : Len(a) > 0 /\ a[1] % 2 = 1)

\* quotient and remainder of a by d > 0, by shift and subtract from the top bit down
DivMod(a0, d0) ==
    Bind2(a0, d0, LAMBDA a, d :
        Bind(BitLen(a) - BitLen(d), LAMBDA top :
            LET Step(acc, k) ==
                    Bind(ShiftLeft(d, top - k), LAMBDA t :
                        IF Cmp(t, acc.r) <= 0
                        THEN [q |-> Add(acc.q, ShiftLeft(<<1>>, top - k)),
                              r |-> Sub(acc.r, t)]
                        ELSE acc)
            IN  FoldRange(Step, [q |-> <<>>, r |-> a], 0, top)))

\* 10^n
Pow10(n) ==
    LET Step(acc, i) == MulSmall(acc, 10)
    IN  FoldRange(Step, <<1>>, 1, n)

\* the value of a sequence of decimal digit characters
FromDigits(ds0) ==
    Bind(ds0, LAMBDA ds :
        LET Step(acc, i) == Add(MulSmall(acc, 10), FromNat(DigitVal(ds[i])))
        IN  FoldRange(Step, <<>>, 1, Len(ds)))

----------------------------------------------------------------------------
(* IEEE-754 binary64, as float(), float * int and int(float) use it: a     *)
(* finite double is m * 2^e with m < 2^53, or it is infinity.              *)

MantBits == 53
MaxExp == 1024
MinExp == -1074

Inf == [inf |-> TRUE, m |-> <<>>, e |-> 0]
Finite(m, e) == [inf |-> FALSE, m |-> m, e |-> e]

\* n / (d * 2^e) as a fraction of big naturals
Scaled(n, d, e0) ==
    Bind(e0, LAMBDA e : IF e >= 0 THEN [a |-> n, d |-> ShiftLeft(d, e)]
                        ELSE [a |-> ShiftLeft(n, -e), d |-> d])

\* a / d rounded to the nearest integer, ties to even
RoundDiv(a, d0) ==
    Bind2(DivMod(a, d0), d0, LAMBDA qr, d :
        Bind(Cmp(ShiftLeft(qr.r, 1), d), LAMBDA c :
            IF c > 0 \/ (c = 0 /\ IsOdd(qr.q)) THEN Add(qr.q, <<1>>) ELSE qr.q))

\* the exponent of the double nearest to n / d: the one that leaves 53 bits of
\* quotient, and no less than the exponent of the subnormals
ExponentOf(n, d, e0) ==
    Bind(Scaled(n, d, e0), LAMBDA s0 :
        Bind(IF BitLen(DivMod(s0.a, s0.d).q) > MantBits THEN e0 + 1 ELSE e0, LAMBDA e1 :
            IF e1 < MinExp THEN MinExp ELSE e1))

\* m * 2^e with m of up to 54 bits after rounding, as a double
Normalized(m0, e) ==
    Bind(m0, LAMBDA m :
        Bind2(IF BitLen(m) > MantBits THEN ShiftRight(m, 1) ELSE m,
              IF BitLen(m) > MantBits THEN e + 1 ELSE e, LAMBDA m3, e3 :
            IF BitLen(m3) + e3 > MaxExp THEN Inf ELSE Finite(m3, e3)))

\* the double nearest to n / d (d > 0), correctly rounded
FloatOfRatio(n0, d0) ==
    Bind2(n0, d0, LAMBDA n, d :
        IF Len(n) = 0 THEN Finite(<<>>, 0)
        ELSE Bind(ExponentOf(n, d, BitLen(n) - BitLen(d) - MantBits), LAMBDA e2 :
                 Bind(Scaled(n, d, e2), LAMBDA s :
                     Normalized(RoundDiv(s.a, s.d), e2))))

\* float("<digits>[.<digits>]"): intpart and fracpart are digit sequences
float_of(intpart, fracpart) ==
    FloatOfRatio(FromDigits(intpart \o fracpart), Pow10(Len(fracpart)))

\* x * k for a double x and an int k that converts to a double exactly
float_mul(x0, k) ==
    Bind(x0, LAMBDA x :
        IF x.inf THEN Inf
        ELSE Bind(Scaled(Mul(x.m, k), <<1>>, -x.e), LAMBDA s : FloatOfRatio(s.a, s.d)))

\* int(x): truncation; int(inf) raises OverflowError
int_of(x0) ==
    Bind(x0, LAMBDA x :
        IF x.inf THEN [kind |-> "raise", value |-> <<>>]
        ELSE [kind |-> "int",
              value |-> IF x.e >= 0 THEN ShiftLeft(x.m, x.e) ELSE ShiftRight(x.m, -x.e)])

----------------------------------------------------------------------------
(* parse_number_input (app2.py 13-31, app3.py 14-28, app4.py 14-27)        *)

None == [kind |-> "None", value |-> <<>>]

\* number_map.get(unit, 1); a unit the pattern did not match is the empty sequence
number_map_get(unit0) ==
    Bind(unit0, LAMBDA unit :
        IF unit \in {<<"k">>, <<"t","h","o","u","s","a","n","d">>} THEN FromNat(1000)
        ELSE IF unit \in {<<"m">>, <<"m","i","l","l","i","o","n">>} THEN FromNat(1000000)
        ELSE IF unit \in {<<"b">>, <<"b","i","l","l","i","o","n">>} THEN FromNat(1000000000)
        ELSE FromNat(1))

\* the groups of a match whose integer digits end at n1, fraction digits (n2 of
\* them, 0 for no fraction) at numEnd, followed by ws whitespace characters
Groups(s, n1, n2, numEnd, ws) ==
    [matched |-> TRUE,
     intpart |-> SubSeq(s, 1, n1),
     fracpart |-> IF n2 > 0 THEN SubSeq(s, n1 + 2, n1 + 1 + n2) ELSE <<>>,
     unit |-> SubSeq(s, numEnd + ws + 1, numEnd + ws + RunLen(s, numEnd + ws + 1, IsLower))]

\* re.match(r"(\d+(?:\.\d+)?)\s*([a-z]+)?", s): the groups, or no match
re_match(s0) ==
    Bind(s0, LAMBDA s :
        Bind(RunLen(s, 1, IsDigit), LAMBDA n1 :
            IF n1 = 0
            THEN [matched |-> FALSE, intpart |-> <<>>, fracpart |-> <<>>, unit |-> <<>>]
            ELSE Bind(IF n1 + 2 <= Len(s) /\ s[n1 + 1] = "." /\ IsDigit(s[n1 + 2])
                      THEN RunLen(s, n1 + 2, IsDigit) ELSE 0, LAMBDA n2 :
                     Bind(IF n2 > 0 THEN n1 + 1 + n2 ELSE n1, LAMBDA numEnd :
                         Bind(RunLen(s, numEnd + 1, IsSpace), LAMBDA ws :
                             Groups(s, n1, n2, numEnd, ws))))))

\* input_text.lower().replace(",", "").strip()
normalize(text) == strip(remove_commas(lower(text)))

parse_number_input(text) ==
    Bind(re_match(normalize(text)), LAMBDA match :
        IF match.matched
        THEN int_of(float_mul(float_of(match.intpart, match.fracpart),
                              number_map_get(match.unit)))
        ELSE None)

----------------------------------------------------------------------------
(* Python values, as json.loads returns them and the scripts use them.     *)
(* A dict is the sequence of its items in insertion order.                 *)

PyNone == [t |-> "None", v |-> <<>>]
PyNaN == [t |-> "float", v |-> <<"n","a","n">>]
PyInt(n) == [t |-> "int", v |-> n]
PyStr(chars) == [t |-> "str", v |-> chars]
PyList(items) == [t |-> "list", v |-> items]
PyDict(items) == [t |-> "dict", v |-> items]
Item(key, value) == [k |-> key, v |-> value]

\* bool(x): None, 0, "", [] and {} are false; nan is true
truthy(x) ==
    IF x.t = "None" THEN FALSE
    ELSE IF x.t = "int" THEN x.v # Zero
    ELSE IF x.t = "float" THEN TRUE
    ELSE Len(x.v) > 0

has_key(d, key) == \E i \in 1..Len(d.v) : d.v[i].k = key

\* d.get(key, default) of a dict d
dict_get(d, key, default) ==
    IF has_key(d, key) THEN d.v[CHOOSE i \in 1..Len(d.v) : d.v[i].k = key].v ELSE default

K_ingestion == <<"i","n","g","e","s","t","i","o","n">>
K_transformation == <<"t","r","a","n","s","f","o","r","m","a","t","i","o","n">>
K_visualization == <<"v","i","s","u","a","l","i","z","a","t","i","o","n">>
K_tool == <<"t","o","o","l">>
Unknown == <<"U","n","k","n","o","w","n">>

\* needle occurs in hay (Python's "in" on strings)
is_substring(needle, hay) ==
    \E i \in 1..(Len(hay) - Len(needle) + 1) : SubSeq(hay, i, i + Len(needle) - 1) = needle

\* str(x) as an f-string interpolates it: a string is itself, None is "None",
\* a list is its items' repr between brackets, and the repr of a string with no
\* quote, backslash or control character in it is the string in single quotes
py_str(x) ==
    IF x.t = "str" THEN x.v
    ELSE IF x.t = "None" THEN <<"N","o","n","e">>
    ELSE IF x.t = "list"
    THEN LET repr(item) == IF item.t = "str" THEN <<"'">> \o item.v \o <<"'">> ELSE <<"?">>
             Step(acc, i) == IF i = 1 THEN repr(x.v[i])
                             ELSE acc \o <<",", " ">> \o repr(x.v[i])
         IN  <<"[">> \o FoldRange(Step, <<>>, 1, Len(x.v)) \o <<"]">>
    ELSE <<"?">>

\* "Error" in json.dumps(x, indent=4): the dump's punctuation, numbers and
\* literals hold no "Error", so it is in the dump iff it is in a key or a string
RECURSIVE error_in_dump(_)
error_in_dump(x) ==
    IF x.t = "str" THEN is_substring(<<"E","r","r","o","r">>, x.v)
    ELSE IF x.t = "list" THEN \E i \in 1..Len(x.v) : error_in_dump(x.v[i])
    ELSE IF x.t = "dict"
         THEN \E i \in 1..Len(x.v) :
                  is_substring(<<"E","r","r","o","r">>, x.v[i].k) \/ error_in_dump(x.v[i].v)
    ELSE FALSE

----------------------------------------------------------------------------
(* The oracle's reply text, by what json.loads does with it: it raises     *)
(* JSONDecodeError, or it returns a value.  json.loads also accepts the    *)
(* literal NaN, which is not JSON.                                         *)

NotJson == [json |-> FALSE, loads |-> "JSONDecodeError", value |-> PyNone]
NaNText == [json |-> FALSE, loads |-> "value", value |-> PyNaN]
JsonText(x) == [json |-> TRUE, loads |-> "value", value |-> x]

\* the st.* elements a run displays; a message is the code's text without its
\* leading emoji
El(el, what) == [el |-> el, what |-> what]

\* get_tool_suggestions after the completion call returned reply: the
\* value returned and what st.error displayed
get_tool_suggestions(v, reply) ==
    IF reply.loads = "JSONDecodeError"
    THEN [value |-> PyNone,
          shown |-> <<El("error", IF v \in {"app", "app2"}
                                  THEN "GPT returned an invalid response. Try again."
                                  ELSE "GPT returned an invalid response.")>>]
    ELSE [value |-> reply.value, shown |-> <<>>]

\* the completion call raising inside the try block of json.loads, under an
\* "except Exception": the failure is reported as an invalid response
completion_caught(v) ==
    [uncaught |-> "none",
     shown |-> <<El("error", IF v \in {"app", "app2"}
                             THEN "GPT returned an invalid response. Try again."
                             ELSE "GPT returned an invalid response.")>>]

\* the completion call raising: nothing catches it, the exception leaves
\* get_tool_suggestions and the script
completion_raises(v) == [uncaught |-> "OpenAIError", shown |-> <<>>]

\* tool_suggestions[category]['tool'] in place of the two .get calls: a missing
\* key raises
tool_of_subscript(suggestions, category) ==
    IF suggestions.t # "dict" \/ ~has_key(suggestions, category)
    THEN [raised |-> TRUE, tool |-> PyNone]
    ELSE LET entry == dict_get(suggestions, category, PyNone)
         IN  IF entry.t # "dict" \/ ~has_key(entry, K_tool)
             THEN [raised |-> TRUE, tool |-> PyNone]
             ELSE [raised |-> FALSE, tool |-> dict_get(entry, K_tool, PyNone)]

\* tool_suggestions.get(category, {}).get('tool', 'Unknown'): the tool, or the
\* AttributeError of calling .get on a value that is no dict
tool_of(suggestions, category) ==
    IF suggestions.t # "dict" THEN [raised |-> TRUE, tool |-> PyNone]
    ELSE LET entry == dict_get(suggestions, category, PyDict(<<>>))
         IN  IF entry.t # "dict" THEN [raised |-> TRUE, tool |-> PyNone]
             ELSE [raised |-> FALSE, tool |-> dict_get(entry, K_tool, PyStr(Unknown))]

\* ", ".join(names)
join_commas(names) ==
    LET Step(acc, i) == IF i = 1 THEN names[i] ELSE acc \o <<",", " ">> \o names[i]
    IN  FoldRange(Step, <<>>, 1, Len(names))

\* "\n".join(names)
join_lines(names) ==
    LET Step(acc, i) == IF i = 1 THEN names[i] ELSE acc \o <<"\n">> \o names[i]
    IN  FoldRange(Step, <<>>, 1, Len(names))

Node(name, label) == [name |-> name, label |-> label]
Edge(tail, head) == <<tail, head>>

N_DataSources == <<"D","a","t","a"," ","S","o","u","r","c","e","s">>
N_Ingestion == <<"I","n","g","e","s","t","i","o","n">>
N_Transformation == <<"T","r","a","n","s","f","o","r","m","a","t","i","o","n">>
N_Visualization == <<"V","i","s","u","a","l","i","z","a","t","i","o","n">>

\* the Digraph of generate_flowchart_and_json (app.py 66-82, app2.py 89-105,
\* app3.py 110-123): its node and edge statements in order, or the AttributeError
linear_flowchart(sources, suggestions) ==
    LET ing == tool_of(suggestions, K_ingestion)
        tra == tool_of(suggestions, K_transformation)
        vis == tool_of(suggestions, K_visualization)
    IN  IF ing.raised \/ tra.raised \/ vis.raised
        THEN [raised |-> TRUE, nodes |-> <<>>, edges |-> <<>>]
        ELSE [raised |-> FALSE,
              nodes |-> <<Node(N_DataSources, join_lines(sources)),
                          Node(N_Ingestion, py_str(ing.tool) \o <<" ","(","I","n","g","e","s","t","i","o","n",")">>),
                          Node(N_Transformation, py_str(tra.tool) \o <<" ","(","T","r","a","n","s","f","o","r","m","a","t","i","o","n",")">>),
                          Node(N_Visualization, py_str(vis.tool) \o <<" ","(","V","i","s","u","a","l","i","z","a","t","i","o","n",")">>)>>,
              edges |-> <<Edge(N_DataSources, N_Ingestion),
                          Edge(N_Ingestion, N_Transformation),
                          Edge(N_Transformation, N_Visualization)>>]

N_IngestionLayer == <<"I","n","g","e","s","t","i","o","n"," ","L","a","y","e","r">>
N_LandingZone == <<"L","a","n","d","i","n","g"," ","Z","o","n","e">>
N_DataWarehouse == <<"D","a","t","a"," ","W","a","r","e","h","o","u","s","e">>
N_StreamingLayer == <<"S","t","r","e","a","m","i","n","g"," ","L","a","y","e","r">>
N_TransformationLayer == <<"T","r","a","n","s","f","o","r","m","a","t","i","o","n"," ","L","a","y","e","r">>
N_FeatureStore == <<"F","e","a","t","u","r","e"," ","S","t","o","r","e">>
N_BILayer == <<"B","I"," ","L","a","y","e","r">>
N_AnalyticsML == <<"A","n","a","l","y","t","i","c","s","/","M","L">>
N_Monitoring == <<"M","o","n","i","t","o","r","i","n","g">>

\* the source's name as its node's identifier, with no prefix
source_name(source) == source

\* f"source_{source}"
source_node(source) == <<"s","o","u","r","c","e","_">> \o source

\* generate_complex_flowchart (app4.py 91-132): the node and edge statements in
\* order, or the AttributeError of the tool lookups
generate_complex_flowchart(sources, suggestions) ==
    LET ing == tool_of(suggestions, K_ingestion)
        tra == tool_of(suggestions, K_transformation)
        vis == tool_of(suggestions, K_visualization)
    IN  IF ing.raised \/ tra.raised \/ vis.raised
        THEN [raised |-> TRUE, nodes |-> <<>>, edges |-> <<>>]
        ELSE [raised |-> FALSE,
              nodes |-> [i \in 1..Len(sources) |-> Node(source_node(sources[i]), sources[i])]
                        \o <<Node(N_IngestionLayer, py_str(ing.tool) \o <<"\n","(","I","n","g","e","s","t","i","o","n",")">>),
                             Node(N_LandingZone, <<"L","a","n","d","i","n","g"," ","Z","o","n","e","\n","(","S","3"," ","/"," ","B","l","o","b"," ","S","t","o","r","a","g","e",")">>),
                             Node(N_DataWarehouse, <<"D","a","t","a"," ","W","a","r","e","h","o","u","s","e","\n","(","R","e","d","s","h","i","f","t"," ","/"," ","S","n","o","w","f","l","a","k","e",")">>),
                             Node(N_StreamingLayer, <<"S","t","r","e","a","m","i","n","g"," ","L","a","y","e","r","\n","(","K","a","f","k","a"," ","/"," ","F","l","i","n","k"," ","/"," ","K","S","Q","L",")">>),
                             Node(N_TransformationLayer, py_str(tra.tool) \o <<"\n","(","T","r","a","n","s","f","o","r","m","a","t","i","o","n",")">>),
                             Node(N_FeatureStore, <<"F","e","a","t","u","r","e"," ","S","t","o","r","e","\n","(","M","L"," ","F","e","a","t","u","r","e","s",")">>),
                             Node(N_BILayer, py_str(vis.tool) \o <<"\n","(","B","I"," ","V","i","s","u","a","l","i","z","a","t","i","o","n",")">>),
                             Node(N_AnalyticsML, <<"A","n","a","l","y","t","i","c","s"," ","L","a","y","e","r","\n","(","D","a","t","a"," ","S","c","i","e","n","c","e"," ","&"," ","M","L",")">>),
                             Node(N_Monitoring, <<"M","o","n","i","t","o","r","i","n","g"," ","&"," ","A","l","e","r","t","s","\n","(","E","l","a","s","t","i","c"," ","/"," ","K","i","b","a","n","a"," ","/"," ","G","r","a","f","a","n","a",")">>)>>,
              edges |-> [i \in 1..Len(sources) |-> Edge(source_node(sources[i]), N_IngestionLayer)]
                        \o <<Edge(N_IngestionLayer, N_LandingZone),
                             Edge(N_IngestionLayer, N_StreamingLayer),
                             Edge(N_LandingZone, N_DataWarehouse),
                             Edge(N_StreamingLayer, N_TransformationLayer),
                             Edge(N_DataWarehouse, N_TransformationLayer),
                             Edge(N_TransformationLayer, N_FeatureStore),
                             Edge(N_TransformationLayer, N_BILayer),
                             Edge(N_FeatureStore, N_AnalyticsML),
                             Edge(N_AnalyticsML, N_BILayer),
                             Edge(N_StreamingLayer, N_Monitoring),
                             Edge(N_TransformationLayer, N_Monitoring),
                             Edge(N_LandingZone, N_Monitoring)>>]

----------------------------------------------------------------------------
(* The cost table (app3.py 31-40, 89-102)                                  *)

T_Domo == <<"D","o","m","o">>
T_PowerBI == <<"P","o","w","e","r"," ","B","I">>
T_Sigma == <<"S","i","g","m","a">>
T_dbt == <<"d","b","t">>
T_Snowflake == <<"S","n","o","w","f","l","a","k","e">>
T_Databricks == <<"D","a","t","a","b","r","i","c","k","s">>
T_ADF == <<"A","D","F">>
T_Tableau == <<"T","a","b","l","e","a","u">>

Costs(small, medium, large) == [Small |-> small, Medium |-> medium, Large |-> large]

TOOL_COSTS ==
    (T_Domo :> Costs(500, 2000, 5000)) @@ (T_PowerBI :> Costs(200, 1000, 3000)) @@
    (T_Sigma :> Costs(300, 1500, 4000)) @@ (T_dbt :> Costs(100, 500, 2000)) @@
    (T_Snowflake :> Costs(300, 2000, 8000)) @@ (T_Databricks :> Costs(500, 2500, 9000)) @@
    (T_ADF :> Costs(100, 800, 2500)) @@ (T_Tableau :> Costs(300, 1500, 4500))

NA == PyStr(<<"N","/","A">>)

\* str.capitalize(): the first character upper-cased, the rest lower-cased
capitalize(s) == [i \in 1..Len(s) |-> IF i = 1 THEN UpperChar(s[i]) ELSE LowerChar(s[i])]

\* TOOL_COSTS[tool_name].get(usage_tier, "N/A") for a tool of the table
tier_cost(tool_name, tier) ==
    IF tier \in DOMAIN TOOL_COSTS[tool_name]
    THEN PyInt(FromNat(TOOL_COSTS[tool_name][tier]))
    ELSE NA

Row(tool, category, cost) == [Tool |-> tool, Category |-> category, Cost |-> cost]

\* a row whose Category is the key as the reply spells it
cost_row_verbatim(category, tool_info, tier) ==
    LET tool_name == dict_get(tool_info, K_tool, PyNone)
    IN  Row(tool_name, category,
            IF tool_name.t = "str" /\ tool_name.v \in DOMAIN TOOL_COSTS
            THEN tier_cost(tool_name.v, tier)
            ELSE NA)

\* one row of estimate_tool_costs: tool_info.get("tool") is None without the key
cost_row(category, tool_info, tier) ==
    LET tool_name == dict_get(tool_info, K_tool, PyNone)
    IN  Row(tool_name, capitalize(category),
            IF tool_name.t = "str" /\ tool_name.v \in DOMAIN TOOL_COSTS
            THEN tier_cost(tool_name.v, tier)
            ELSE NA)

\* estimate_tool_costs(tool_suggestions, usage_tier): the rows of the DataFrame, in
\* the order of the dict's items; .items() and .get raise AttributeError on a
\* value that is no dict, and a list or dict as tool name is unhashable
estimate_tool_costs(suggestions, tier) ==
    IF suggestions.t # "dict"
    THEN [raised |-> TRUE, rows |-> <<>>]
    ELSE IF \E i \in 1..Len(suggestions.v) :
                 \/ suggestions.v[i].v.t # "dict"
                 \/ dict_get(suggestions.v[i].v, K_tool, PyNone).t \in {"list", "dict"}
    THEN [raised |-> TRUE, rows |-> <<>>]
    ELSE [raised |-> FALSE,
          rows |-> [i \in 1..Len(suggestions.v) |->
                       cost_row(suggestions.v[i].k, suggestions.v[i].v, tier)]]

----------------------------------------------------------------------------
(* What each script does once the completion call has returned             *)
(* the reply: the rest of the button handler, to the end of the run.        *)

NoFlowchart == [built |-> FALSE, nodes |-> <<>>, edges |-> <<>>]
Built(chart) == [built |-> TRUE, nodes |-> chart.nodes, edges |-> chart.edges]

Outcome(suggestions, chart, elements, exception) ==
    [suggestions |-> suggestions, flowchart |-> chart, shown |-> elements,
     uncaught |-> exception]

\* app.py 59-90 and 125-139; render_ok: flowchart.render wrote the png
run_app(sources, reply, render_ok) ==
    LET got   == get_tool_suggestions("app", reply)
        chart == linear_flowchart(sources, got.value)
        rendered == IF render_ok THEN <<>>
                    ELSE <<El("error", "Flowchart generation failed")>>
    IN  IF ~truthy(got.value)
        THEN Outcome(got.value, NoFlowchart,
                     got.shown \o <<El("error", "Failed to generate JSON response.")>>, "none")
        ELSE IF chart.raised
        THEN Outcome(got.value, NoFlowchart, got.shown, "AttributeError")
        ELSE IF error_in_dump(got.value)
        THEN Outcome(got.value, Built(chart),
                     got.shown \o rendered
                       \o <<El("error", "Failed to generate JSON response.")>>, "none")
        ELSE Outcome(got.value, Built(chart),
                     got.shown \o rendered
                       \o <<El("success", "Flowchart and JSON generated successfully!"),
                            El("subheader", "Tool Suggestions (JSON):"),
                            El("code", "json_response")>>
                       \o (IF render_ok
                           THEN <<El("subheader", "Flowchart:"), El("image", "flowchart")>>
                           ELSE <<El("warning", "Flowchart image not found. Check graphviz installation.")>>),
                     "none")

\* app2.py 82-113 and 159-173
run_app2(sources, reply, render_ok) ==
    LET got   == get_tool_suggestions("app2", reply)
        chart == linear_flowchart(sources, got.value)
        rendered == IF render_ok THEN <<>>
                    ELSE <<El("error", "Flowchart generation failed")>>
    IN  IF ~truthy(got.value)
        THEN Outcome(got.value, NoFlowchart,
                     got.shown \o <<El("error", "Failed to generate JSON response.")>>, "none")
        ELSE IF chart.raised
        THEN Outcome(got.value, NoFlowchart, got.shown, "AttributeError")
        ELSE IF error_in_dump(got.value)
        THEN Outcome(got.value, Built(chart),
                     got.shown \o rendered
                       \o <<El("error", "Failed to generate JSON response.")>>, "none")
        ELSE Outcome(got.value, Built(chart),
                     got.shown \o rendered
                       \o <<El("success", "Flowchart and JSON generated successfully!"),
                            El("subheader", "Tool Suggestions (JSON):"),
                            El("code", "json_response")>>
                       \o (IF render_ok
                           THEN <<El("subheader", "Flowchart:"), El("graphviz_chart", "flowchart")>>
                           ELSE <<El("warning", "Flowchart could not be generated.")>>),
                     "none")

\* app3.py 105-125 and 184-203: the cost table is built after the JSON and the
\* chart are on the page
run_app3(sources, tier, reply) ==
    LET got   == get_tool_suggestions("app3", reply)
        chart == linear_flowchart(sources, got.value)
        costs == estimate_tool_costs(got.value, tier)
        page  == got.shown
                   \o <<El("success", "Flowchart and JSON generated successfully!"),
                        El("subheader", "Tool Suggestions (JSON):"),
                        El("code", "json_response"),
                        El("subheader", "Flowchart:"),
                        El("graphviz_chart", "flowchart"),
                        El("subheader", "Estimated Monthly Cost")>>
    IN  IF ~truthy(got.value)
        THEN Outcome(got.value, NoFlowchart,
                     got.shown \o <<El("error", "Failed to generate JSON response.")>>, "none")
        ELSE IF chart.raised
        THEN Outcome(got.value, NoFlowchart, got.shown, "AttributeError")
        ELSE IF error_in_dump(got.value)
        THEN Outcome(got.value, Built(chart),
                     got.shown \o <<El("error", "Failed to generate JSON response.")>>, "none")
        ELSE IF costs.raised
        THEN Outcome(got.value, Built(chart), page, "AttributeError")
        ELSE Outcome(got.value, Built(chart), page \o <<El("table", "cost_df")>>, "none")

\* app4.py 192-214: st.success comes before the chart is built
run_app4(sources, reply) ==
    LET got   == get_tool_suggestions("app4", reply)
        chart == generate_complex_flowchart(sources, got.value)
    IN  IF ~truthy(got.value)
        THEN Outcome(got.value, NoFlowchart,
                     got.shown \o <<El("error", "Failed to generate tool suggestions.")>>, "none")
        ELSE IF chart.raised
        THEN Outcome(got.value, NoFlowchart,
                     got.shown \o <<El("success", "Tool suggestions generated successfully!")>>,
                     "AttributeError")
        ELSE Outcome(got.value, Built(chart),
                     got.shown
                       \o <<El("success", "Tool suggestions generated successfully!"),
                            El("subheader", "Architecture Flowchart:"),
                            El("graphviz_chart", "flowchart")>>,
                     "none")

run(v, sources, tier, reply, render_ok) ==
    IF v = "app" THEN run_app(sources, reply, render_ok)
    ELSE IF v = "app2" THEN run_app2(sources, reply, render_ok)
    ELSE IF v = "app3" THEN run_app3(sources, tier, reply)
    ELSE run_app4(sources, reply)

----------------------------------------------------------------------------
(* The widgets' values a request is submitted with                         *)

MaxSources == 2

Src_GoogleAds == <<"G","o","o","g","l","e"," ","A","d","s">>
Src_GoogleAnalytics == <<"G","o","o","g","l","e"," ","A","n","a","l","y","t","i","c","s">>
Src_SQLDatabase == <<"S","Q","L"," ","D","a","t","a","b","a","s","e">>
Src_ExcelFiles == <<"E","x","c","e","l"," ","F","i","l","e","s">>
Src_SocialMedia == <<"S","o","c","i","a","l"," ","M","e","d","i","a">>

\* the multiselect's options (app.py 100, app2.py 123, app3.py 133, app4.py 141-144)
SourceOptions(v) ==
    <<Src_GoogleAds, Src_GoogleAnalytics, Src_SQLDatabase, Src_ExcelFiles, Src_SocialMedia>>
    \o (IF v = "app4"
        THEN <<<<"A","W","S"," ","S","3">>, <<"S","a","l","e","s","f","o","r","c","e">>, <<"S","h","o","p","i","f","y">>, <<"P","o","s","t","g","r","e","S","Q","L">>, <<"M","o","n","g","o","D","B">>,
               <<"K","a","f","k","a"," ","S","t","r","e","a","m">>, <<"I","o","T"," ","D","e","v","i","c","e","s">>>>
        ELSE <<>>)

\* the sequences without repetition of at most n elements of S
RECURSIVE Arrangements(_, _)
Arrangements(S, n) ==
    IF n = 0 THEN {<<>>}
    ELSE LET shorter == Arrangements(S, n - 1)
             longer  == {Append(q, x) : q \in shorter, x \in S}
         IN  shorter \cup {q \in longer : Cardinality(Range(q)) = Len(q)}

\* the selections the model submits: any of the first MaxSources options, in
\* the order they were selected
Selections(v) ==
    LET opts == SourceOptions(v)
        m    == IF MaxSources < Len(opts) THEN MaxSources ELSE Len(opts)
    IN  Arrangements({opts[i] : i \in 1..m}, m)

UsageTiers == {"Small", "Medium", "Large"}

Customs == {<<>>, <<" ">>, <<"N","e","e","d"," ","r","e","a","l","-","t","i","m","e"," ","i","n","g","e","s","t","i","o","n">>}

FieldSet == {"historical_load", "monthly_increase", "datasets", "daily_refresh",
             "three_hour_refresh", "hourly_refresh", "real_time_refresh"}

GoodText == <<"2","0"," ","m","i","l","l","i","o","n">>
OffTexts == {<<>>, <<" ">>, <<"a","b","c">>, <<"0">>}
FieldTexts == {GoodText} \cup OffTexts

\* the text inputs the model submits: every field holds GoodText, but for one
\* field that holds any of the texts
GoodFields == [f \in FieldSet |-> GoodText]
FieldChoices == {[GoodFields EXCEPT ![f] = t] : f \in FieldSet, t \in FieldTexts}

\* the number inputs of app.py 106-112 at their default values
AppDefaults ==
    [historical_load |-> <<"2","0","0","0","0","0","0","0">>, monthly_increase |-> <<"5","0","0","0","0">>, datasets |-> <<"2","0">>,
     daily_refresh |-> <<"1","0">>, three_hour_refresh |-> <<"5">>, hourly_refresh |-> <<"3">>,
     real_time_refresh |-> <<"2">>]

NoFields == [f \in FieldSet |-> <<>>]

\* parse_number_input over the field texts, evaluated once
ParsedText == [t \in FieldTexts |-> parse_number_input(t)]

\* parse_number_input(text) or 0
or_zero(p) == IF p.kind = "int" THEN p.value ELSE Zero

\* the seven "parse_number_input(...) or 0" assignments
parse_fields(fs) == [f \in FieldSet |-> PyInt(or_zero(ParsedText[fs[f]]))]

NoDetails == [f \in FieldSet |-> PyNone]

\* app3.py 167-172: the message of the check that fails, "" when none does
validate_app3(sources, requirement, details) ==
    IF Len(sources) = 0 THEN "Please select at least one data source."
    ELSE IF \E f \in {"historical_load", "monthly_increase", "datasets"} : details[f].v = Zero
    THEN "Please fill out all dataset configuration fields."
    ELSE IF Len(strip(requirement)) = 0 THEN "Please describe your custom requirement."
    ELSE ""

\* app4.py 167-172: the message of the check that fails, "" when none does
validate_app4(sources, requirement, fs) ==
    IF Len(sources) = 0 THEN "Please select at least one data source."
    ELSE IF Len(strip(requirement)) = 0 THEN "Please describe your custom requirement."
    ELSE IF \E f \in FieldSet : Len(fs[f]) = 0
    THEN "Please fill out all dataset configuration fields."
    ELSE ""

----------------------------------------------------------------------------
(* The replies the completion call returns in the model                    *)

T_Fivetran == <<"F","i","v","e","t","r","a","n">>
T_ErrorHub == <<"E","r","r","o","r","H","u","b">>

\* what a reply holds for one category: nothing, an object without 'tool', an
\* object naming a tool, or a value that is no object
Absent == [t |-> "absent", v |-> <<>>]
ToolInfo(name) == PyDict(<<Item(K_tool, PyStr(name))>>)
CategoryValues == {Absent, PyDict(<<>>), ToolInfo(T_dbt), PyStr(T_dbt)}

Entry(key, value) == IF value = Absent THEN <<>> ELSE <<Item(key, value)>>

Suggestions(ing, tra, vis) ==
    PyDict(Entry(K_ingestion, ing) \o Entry(K_transformation, tra) \o Entry(K_visualization, vis))

ObjectReplies ==
    {JsonText(Suggestions(i, t, x)) : i \in CategoryValues, t \in CategoryValues, x \in CategoryValues}

OtherReplies ==
    {NotJson, NaNText,
     JsonText(PyNone), JsonText(PyInt(Zero)), JsonText(PyInt(FromNat(5))),
     JsonText(PyStr(<<>>)), JsonText(PyStr(T_dbt)),
     JsonText(PyList(<<>>)), JsonText(PyList(<<ToolInfo(T_dbt)>>)),
     JsonText(PyDict(<<Item(<<"n","o","t","e","s">>, PyStr(<<"n","o","n","e">>))>>)),
     JsonText(PyDict(<<Item(K_ingestion, ToolInfo(T_ErrorHub)),
                       Item(K_transformation, ToolInfo(T_dbt)),
                       Item(K_visualization, ToolInfo(T_Tableau))>>)),
     JsonText(PyDict(<<Item(K_ingestion, ToolInfo(T_ADF)),
                       Item(K_transformation, ToolInfo(T_Fivetran)),
                       Item(K_visualization, ToolInfo(T_Tableau)),
                       Item(<<"s","t","o","r","a","g","e">>, ToolInfo(T_Snowflake))>>))}

Replies == ObjectReplies \cup OtherReplies

NoReply == [json |-> FALSE, loads |-> "pending", value |-> PyNone]

----------------------------------------------------------------------------
(* The scripts' runs.  A click of the button starts a run of the script;   *)
(* the run ends when the script's last statement has run or with an        *)
(* exception, and the next interaction starts a new run.                   *)

Variants == {"app", "app2", "app3", "app4"}

Unparsed == [kind |-> "pending", value |-> <<>>]
NoCostArgs == [suggestions |-> PyNone, tier |-> "Small"]
NoCostRows == [raised |-> FALSE, rows |-> <<>>, done |-> FALSE]

Idle ==
    /\ pc = "idle"
    /\ data_sources = <<>>
    /\ custom_requirement = <<>>
    /\ fields = NoFields
    /\ usage_tier = "Small"
    /\ refresh_details = NoDetails
    /\ oracle_calls = 0
    /\ tool_suggestions = PyNone
    /\ flowchart = NoFlowchart
    /\ shown = <<>>
    /\ uncaught = "none"
    /\ response_text = NoReply

Init ==
    /\ variant \in Variants
    /\ Idle
    /\ input_text = <<>>
    /\ parsed = Unparsed
    /\ cost_args = NoCostArgs
    /\ cost_rows = NoCostRows

harness == <<input_text, parsed, cost_args, cost_rows>>

\* the widgets' values are read and the seven fields parsed; nothing is checked
Entered(sources, requirement, fs, tier, details) ==
    /\ data_sources' = sources
    /\ custom_requirement' = requirement
    /\ fields' = fs
    /\ usage_tier' = tier
    /\ refresh_details' = details

\* st.error(message): no branch of the checks is left to run, the run ends
Rejected(message) ==
    /\ pc' = "done"
    /\ shown' = <<El("error", message)>>
    /\ UNCHANGED <<oracle_calls, tool_suggestions, flowchart, uncaught, response_text>>

\* the completion call made again when the first reply does not parse
Called_with_retry ==
    /\ pc' = "calling"
    /\ oracle_calls' = oracle_calls + 2
    /\ UNCHANGED <<shown, tool_suggestions, flowchart, uncaught, response_text>>

\* the run reaches openai.ChatCompletion.create
Called ==
    /\ pc' = "calling"
    /\ oracle_calls' = oracle_calls + 1
    /\ UNCHANGED <<shown, tool_suggestions, flowchart, uncaught, response_text>>

\* app.py 104-125: the form is there while a source is selected
Submit_app ==
    /\ variant = "app" /\ pc = "idle"
    /\ \E sources \in Selections("app") \ {<<>>} :
           Entered(sources, <<>>, AppDefaults, "Small",
                   [f \in FieldSet |-> PyInt(FromDigits(AppDefaults[f]))])
    /\ Called
    /\ UNCHANGED <<variant, harness>>

\* app2.py 128-160
Submit_app2 ==
    /\ variant = "app2" /\ pc = "idle"
    /\ \E sources \in Selections("app2") \ {<<>>}, fs \in FieldChoices :
           Entered(sources, <<>>, fs, "Small", parse_fields(fs))
    /\ Called
    /\ UNCHANGED <<variant, harness>>

\* app3.py 131-185
Submit_app3 ==
    /\ variant = "app3" /\ pc = "idle"
    /\ \E sources \in Selections("app3"), fs \in FieldChoices,
          requirement \in Customs, tier \in UsageTiers :
           /\ Entered(sources, requirement, fs, tier, parse_fields(fs))
           /\ LET message == validate_app3(sources, requirement, parse_fields(fs))
              IN  IF message = "" THEN Called ELSE Rejected(message)
    /\ UNCHANGED <<variant, harness>>

\* app4.py 137-190: the fields are parsed after the checks
Submit_app4 ==
    /\ variant = "app4" /\ pc = "idle"
    /\ \E sources \in Selections("app4"), fs \in FieldChoices, requirement \in Customs :
           LET message == validate_app4(sources, requirement, fs)
           IN  IF message = ""
               THEN Entered(sources, requirement, fs, "Small", parse_fields(fs)) /\ Called
               ELSE Entered(sources, requirement, fs, "Small", NoDetails) /\ Rejected(message)
    /\ UNCHANGED <<variant, harness>>

\* the completion call returns reply and the run goes on to its end
OracleReplies ==
    /\ pc = "calling"
    /\ \E reply \in Replies, render_ok \in BOOLEAN :
           LET out == run(variant, data_sources, usage_tier, reply, render_ok)
           IN  /\ response_text' = reply
               /\ tool_suggestions' = out.suggestions
               /\ flowchart' = out.flowchart
               /\ shown' = out.shown
               /\ uncaught' = out.uncaught
    /\ pc' = "done"
    /\ UNCHANGED <<variant, data_sources, custom_requirement, fields, usage_tier,
                   refresh_details, oracle_calls, harness>>

\* the completion call raises (no network, a refused key, a rate limit)
OracleRaises ==
    /\ pc = "calling"
    /\ LET out == completion_raises(variant)
       IN  /\ uncaught' = out.uncaught
           /\ shown' = out.shown
    /\ pc' = "done"
    /\ UNCHANGED <<variant, data_sources, custom_requirement, fields, usage_tier,
                   refresh_details, oracle_calls, tool_suggestions, flowchart,
                   response_text, harness>>

\* the next interaction reruns the script from its first line
NewRequest ==
    /\ pc = "done"
    /\ pc' = "idle"
    /\ data_sources' = <<>>
    /\ custom_requirement' = <<>>
    /\ fields' = NoFields
    /\ usage_tier' = "Small"
    /\ refresh_details' = NoDetails
    /\ oracle_calls' = 0
    /\ tool_suggestions' = PyNone
    /\ flowchart' = NoFlowchart
    /\ shown' = <<>>
    /\ uncaught' = "none"
    /\ response_text' = NoReply
    /\ UNCHANGED <<variant, harness>>

Next ==
    \/ Submit_app
    \/ Submit_app2
    \/ Submit_app3
    \/ Submit_app4
    \/ OracleReplies
    \/ OracleRaises
    \/ NewRequest

Spec == Init /\ [][Next]_vars

----------------------------------------------------------------------------
(* parse_number_input on its own: one call on one text                     *)

MaxIntDigits == 1
MaxFracDigits == 3
LongLen == 310

\* the digit strings of 1..n digits over 0 and 1
RECURSIVE DigitStrings(_)
DigitStrings(n) ==
    IF n = 0 THEN {}
    ELSE LET shorter == DigitStrings(n - 1)
         IN  {<<"0">>, <<"1">>} \cup shorter
                 \cup {Append(d, c) : d \in shorter, c \in {"0", "1"}}

UnitParts == {<<>>, <<"k">>, <<" ","k">>, <<"K">>, <<"m">>, <<" ","m","i","l","l","i","o","n">>, <<"b">>, <<"b","i","l","l","i","o","n">>, <<" ","t","h","o","u","s","a","n","d">>, <<" ","w","i","d","g","e","t","s">>}

\* a run of nines that float() reads as inf
LongDigits == [i \in 1..LongLen |-> "9"]

OtherTexts ==
    {<<>>, <<" ">>, <<"a","b","c">>, <<"-","5">>, <<"+","5">>, <<".","5">>, <<"k">>, <<"$","2","0">>, <<"5",".">>, <<"5",".","k">>, <<" ","7"," ">>, <<"1","2",",","0","0","0">>,
     <<"1",",","5","k">>, <<"3"," ","w","i","d","g","e","t","s">>, <<"2","0"," ","m","i","l","l","i","o","n">>, <<"2","0"," ","M","i","l","l","i","o","n">>, <<"2",".","5"," ","M","I","L","L","I","O","N">>, <<"1","e","5">>, <<"0","x","1","0">>,
     <<"1","_","0","0","0">>, <<"5"," ","k"," ","m">>, <<"5","k","k">>, <<"0",".","0","0","0","9"," ","k">>, <<"4",".","3","5"," ","b">>, <<"2",".","6","7","5","k">>, <<"9","0","0","7","1","9","9","2","5","4","7","4","0","9","9","3">>,
     LongDigits, LongDigits \o <<" ","b">>}

\* up to MaxIntDigits digits, then nothing or a point and up to MaxFracDigits
\* digits, then a unit part; and the other texts
Texts ==
    {i \o f \o u : i \in DigitStrings(MaxIntDigits),
                   f \in {<<>>} \cup {<<".">> \o d : d \in DigitStrings(MaxFracDigits)},
                   u \in UnitParts}
        \cup OtherTexts

ParseInit ==
    /\ variant = "app2"
    /\ Idle
    /\ input_text \in Texts
    /\ parsed = Unparsed
    /\ cost_args = NoCostArgs
    /\ cost_rows = NoCostRows

workflow == <<variant, pc, data_sources, custom_requirement, fields, usage_tier,
              refresh_details, oracle_calls, tool_suggestions, flowchart, shown,
              uncaught, response_text>>

ParseCall ==
    /\ parsed = Unparsed
    /\ parsed' = parse_number_input(input_text)
    /\ UNCHANGED <<workflow, input_text, cost_args, cost_rows>>

ParseSpec == ParseInit /\ [][ParseCall]_vars

----------------------------------------------------------------------------
(* estimate_tool_costs on its own: one call on one suggestion record       *)

T_UnknownTool == <<"U","n","k","n","o","w","n","T","o","o","l">>

CostTools == {T_dbt, T_ADF, T_Tableau, <<"D","B","T">>, T_UnknownTool}

\* the suggestion records the oracle is asked for, and those lacking a category
CostRecords ==
    LET infos == {Absent} \cup {ToolInfo(name) : name \in CostTools}
    IN  {Suggestions(i, t, x) : i \in infos, t \in infos, x \in infos}

CostInit ==
    /\ variant = "app3"
    /\ Idle
    /\ input_text = <<>>
    /\ parsed = Unparsed
    /\ cost_args \in [suggestions : CostRecords, tier : UsageTiers \cup {"Huge"}]
    /\ cost_rows = NoCostRows

CostCall ==
    /\ ~cost_rows.done
    /\ LET out == estimate_tool_costs(cost_args.suggestions, cost_args.tier)
       IN  cost_rows' = [raised |-> out.raised, rows |-> out.rows, done |-> TRUE]
    /\ UNCHANGED <<workflow, input_text, parsed, cost_args>>

CostSpec == CostInit /\ [][CostCall]_vars

----------------------------------------------------------------------------
(* generate_complex_flowchart on its own: one call on one list of distinct *)
(* source names and one suggestion record                                  *)

\* source names: an option of the page, a landmark's identifier, a suggested
\* tool's name and a name that starts with the prefix of the source nodes
DiagramNames ==
    {Src_GoogleAds, N_Monitoring, N_IngestionLayer, T_dbt,
     <<"s","o","u","r","c","e","_">> \o N_Monitoring}

\* suggestion records whose ingestion entry names one tool, a list of two or of
\* three tools, or no tool
DiagramRecords ==
    LET Kafka   == PyStr(<<"K","a","f","k","a">>)
        Airbyte == PyStr(<<"A","i","r","b","y","t","e">>)
    IN  {Suggestions(i, ToolInfo(T_dbt), ToolInfo(T_Tableau)) :
             i \in {ToolInfo(T_Fivetran),
                    PyDict(<<Item(K_tool, PyList(<<Kafka, PyStr(T_Fivetran)>>))>>),
                    PyDict(<<Item(K_tool, PyList(<<Kafka, PyStr(T_Fivetran), Airbyte>>))>>),
                    Absent}}

DiagramInit ==
    /\ variant = "app4"
    /\ pc = "idle"
    /\ data_sources \in Arrangements(DiagramNames, MaxSources)
    /\ custom_requirement = <<>>
    /\ fields = NoFields
    /\ usage_tier = "Small"
    /\ refresh_details = NoDetails
    /\ oracle_calls = 0
    /\ tool_suggestions \in DiagramRecords
    /\ flowchart = NoFlowchart
    /\ shown = <<>>
    /\ uncaught = "none"
    /\ response_text = NoReply
    /\ input_text = <<>>
    /\ parsed = Unparsed
    /\ cost_args = NoCostArgs
    /\ cost_rows = NoCostRows

\* app4.py 198: flowchart = generate_complex_flowchart(data_sources, tool_suggestions)
DiagramCall ==
    /\ pc = "idle"
    /\ LET chart == generate_complex_flowchart(data_sources, tool_suggestions)
       IN  /\ flowchart' = IF chart.raised THEN NoFlowchart ELSE Built(chart)
           /\ uncaught' = IF chart.raised THEN "AttributeError" ELSE "none"
    /\ pc' = "done"
    /\ UNCHANGED <<variant, data_sources, custom_requirement, fields, usage_tier,
                   refresh_details, oracle_calls, tool_suggestions, shown,
                   response_text, harness>>

DiagramSpec == DiagramInit /\ [][DiagramCall]_vars

----------------------------------------------------------------------------
(* The properties                                                          *)

StartsWithDigit(s) == Len(s) > 0 /\ IsDigit(s[1])

\* the multiplier of a unit word
UnitMultiplier(unit) ==
    IF unit \in {<<"k">>, <<"t","h","o","u","s","a","n","d">>} THEN FromNat(1000)
    ELSE IF unit \in {<<"m">>, <<"m","i","l","l","i","o","n">>} THEN FromNat(1000000)
    ELSE IF unit \in {<<"b">>, <<"b","i","l","l","i","o","n">>} THEN FromNat(1000000000)
    ELSE FromNat(1)

\* the integer part of number * multiplier, in exact arithmetic
TruncatedProduct(match) ==
    DivMod(Mul(FromDigits(match.intpart \o match.fracpart), UnitMultiplier(match.unit)),
           Pow10(Len(match.fracpart))).q

\* C1: for every text whose normal form starts with a decimal number, optionally
\* followed by a unit word, parse_number_input returns the integer part of the
\* number times the unit's multiplier (1 for no unit or an unknown one), and an
\* unknown unit is no error
C1_TruncatedProduct ==
    (parsed # Unparsed /\ StartsWithDigit(normalize(input_text))) =>
        parsed = [kind |-> "int",
                  value |-> TruncatedProduct(re_match(normalize(input_text)))]

\* C2: parse_number_input returns None exactly when the normal form of the text
\* does not start with a numeric literal, a non-negative integer in every other
\* case, and raises for no text
C2_NoneIffNoLiteral ==
    parsed # Unparsed =>
        /\ parsed.kind \in {"None", "int"}
        /\ parsed = None <=> ~StartsWithDigit(normalize(input_text))

Blank(text) == Len(strip(text)) = 0

\* a request has been submitted in this run
Submitted == pc \in {"calling", "done"}

\* C3: in app2, app3 and app4, a submitted request whose sources, requirement and
\* fields are all there goes on to the oracle call with 0 for every field that
\* parse_number_input fails on: the failure does not reject the request
C3_ParseFailureContinues ==
    (/\ variant \in {"app2", "app3", "app4"}
     /\ Submitted
     /\ Len(data_sources) > 0
     /\ variant = "app2" \/ ~Blank(custom_requirement)
     /\ \A f \in FieldSet : ~Blank(fields[f])) =>
        \A f \in FieldSet :
            ParsedText[fields[f]] = None =>
                oracle_calls = 1 /\ refresh_details[f] = PyInt(Zero)

Has(el) == \E i \in 1..Len(shown) : shown[i].el = el

\* C4: in app3 and app4, a submitted request with no source selected, a blank
\* custom requirement or an empty dataset-configuration field is rejected with an
\* error message, and the oracle is not called for it
C4_BlankFieldRejected ==
    (/\ variant \in {"app3", "app4"}
     /\ Submitted
     /\ \/ Len(data_sources) = 0
        \/ Blank(custom_requirement)
        \/ \E f \in FieldSet : Len(fields[f]) = 0) =>
        pc = "done" /\ oracle_calls = 0 /\ Has("error")

Replied == pc = "done" /\ response_text # NoReply

\* the JSON, the diagram or the cost table is on the page
Artefacts == Has("code") \/ Has("image") \/ Has("graphviz_chart") \/ Has("table")

\* C5: for every reply that is not valid JSON, get_tool_suggestions returns no
\* suggestion record and does not raise, and the request ends with a failure
\* message and neither diagram, JSON nor cost table
C5_NonJsonIsParseFailure ==
    (Replied /\ ~response_text.json) =>
        /\ uncaught = "none"
        /\ tool_suggestions = PyNone
        /\ ~flowchart.built
        /\ Has("error") /\ ~Has("success") /\ ~Artefacts

Categories == {K_ingestion, K_transformation, K_visualization}

\* a JSON object whose keys ingestion, transformation and visualization each hold
\* an object with a string under 'tool'
ExpectedShape(x) ==
    /\ x.t = "dict"
    /\ Len(x.v) = 3
    /\ {x.v[i].k : i \in 1..Len(x.v)} = Categories
    /\ \A i \in 1..Len(x.v) :
           /\ x.v[i].v.t = "dict"
           /\ has_key(x.v[i].v, K_tool)
           /\ dict_get(x.v[i].v, K_tool, PyNone).t = "str"

\* C6: every JSON reply that is not of the expected shape is handled as a parse
\* failure: it is not accepted as a suggestion, and no exception goes unhandled
C6_DeviationIsParseFailure ==
    (Replied /\ response_text.json /\ ~ExpectedShape(response_text.value)) =>
        /\ uncaught = "none"
        /\ ~flowchart.built
        /\ Has("error") /\ ~Has("success") /\ ~Artefacts

\* the value a category's entry holds for 'tool', when the entry is there and
\* holds one
NamesTool(x, category) ==
    has_key(x, category) /\ has_key(dict_get(x, category, PyNone), K_tool)

\* the reply is an object in which each category is missing or holds an object,
\* whose 'tool', when it has one, is a string
CategoriesOptional(x) ==
    /\ x.t = "dict"
    /\ \A c \in Categories :
           has_key(x, c) =>
               /\ dict_get(x, c, PyNone).t = "dict"
               /\ NamesTool(x, c) => dict_get(dict_get(x, c, PyNone), K_tool, PyNone).t = "str"

SomeCategoryMissing(x) == \E c \in Categories : ~NamesTool(x, c)

\* the diagram's node of a category and what its label adds to the tool name
CategoryNode(category) ==
    IF variant = "app4"
    THEN (K_ingestion :> N_IngestionLayer @@ K_transformation :> N_TransformationLayer
            @@ K_visualization :> N_BILayer)[category]
    ELSE (K_ingestion :> N_Ingestion @@ K_transformation :> N_Transformation
            @@ K_visualization :> N_Visualization)[category]

LabelSuffix(category) ==
    IF variant = "app4"
    THEN (K_ingestion :> <<"\n","(","I","n","g","e","s","t","i","o","n",")">> @@ K_transformation :> <<"\n","(","T","r","a","n","s","f","o","r","m","a","t","i","o","n",")">>
            @@ K_visualization :> <<"\n","(","B","I"," ","V","i","s","u","a","l","i","z","a","t","i","o","n",")">>)[category]
    ELSE (K_ingestion :> <<" ","(","I","n","g","e","s","t","i","o","n",")">> @@ K_transformation :> <<" ","(","T","r","a","n","s","f","o","r","m","a","t","i","o","n",")">>
            @@ K_visualization :> <<" ","(","V","i","s","u","a","l","i","z","a","t","i","o","n",")">>)[category]

\* the category's node is in the diagram, labelled with this tool name
Labelled(category, name) ==
    \E i \in 1..Len(flowchart.nodes) :
        /\ flowchart.nodes[i].name = CategoryNode(category)
        /\ flowchart.nodes[i].label = name \o LabelSuffix(category)

\* every category's node carries the reply's tool name, or Unknown without one
LabelsFollowReply(x) ==
    /\ flowchart.built
    /\ \A c \in Categories :
           Labelled(c, IF NamesTool(x, c)
                       THEN dict_get(dict_get(x, c, PyNone), K_tool, PyNone).v
                       ELSE Unknown)

\* C7 as stated: for every reply that is a JSON object lacking one, two or all
\* three of the categories (or a category's 'tool'), the diagram is built without
\* raising, a missing category's node says Unknown and a present one keeps the
\* reply's tool name
C7_MissingKeysUnknown_AsStated ==
    (/\ Replied /\ response_text.json
     /\ CategoriesOptional(response_text.value)
     /\ SomeCategoryMissing(response_text.value)) =>
        LabelsFollowReply(response_text.value)

\* C7: for every reply that is a JSON object with at least one key, lacking one,
\* two or all three of the categories (or a category's 'tool'), the diagram is
\* built without raising, a missing category's node says Unknown and a present
\* one keeps the reply's tool name; the empty object is a failed request
C7_MissingKeysUnknown ==
    (/\ Replied /\ response_text.json
     /\ CategoriesOptional(response_text.value)
     /\ SomeCategoryMissing(response_text.value)) =>
        IF truthy(response_text.value)
        THEN LabelsFollowReply(response_text.value)
        ELSE ~flowchart.built /\ uncaught = "none" /\ Has("error")

C7_Witness ==
    /\ Replied
    /\ response_text = JsonText(Suggestions(ToolInfo(T_dbt), Absent, PyDict(<<>>)))
    /\ Labelled(K_ingestion, T_dbt)
    /\ Labelled(K_transformation, Unknown)
    /\ Labelled(K_visualization, Unknown)

\* the oracle was called in this run and the call returned no reply
CallRaised == pc = "done" /\ oracle_calls > 0 /\ response_text = NoReply

InvalidResponseShown ==
    \E i \in 1..Len(shown) :
        shown[i].what \in {"GPT returned an invalid response. Try again.",
                           "GPT returned an invalid response."}

\* C8: when the completion call raises, the run ends with the call's exception,
\* which is not the invalid-response report of a reply that does not parse; no
\* suggestion, success message or artefact comes of it, and the next request
\* can be made
C8_ServiceFailureDistinct ==
    CallRaised =>
        /\ uncaught = "OpenAIError"
        /\ ~InvalidResponseShown
        /\ tool_suggestions = PyNone /\ ~flowchart.built
        /\ ~Has("success") /\ ~Artefacts
        /\ ENABLED NewRequest

C8_Witness == CallRaised /\ uncaught = "OpenAIError" /\ shown = <<>>

\* C9: a run makes at most one oracle call, whatever its outcome; the count of
\* calls rises only as a click of the button submits a request
C9_AtMostOneCall ==
    /\ [](oracle_calls <= 1)
    /\ [][oracle_calls' > oracle_calls => pc = "idle" /\ pc' = "calling"]_vars
    /\ [][pc = "calling" => oracle_calls' = oracle_calls]_vars

C9_Witness ==
    /\ Replied /\ response_text = NotJson
    /\ oracle_calls = 1 /\ InvalidResponseShown

\* the cost of the tool at the tier where TOOL_COSTS has the pair, N/A elsewhere
TableCost(tool_name, tier) ==
    IF tool_name \in DOMAIN TOOL_COSTS /\ tier \in DOMAIN TOOL_COSTS[tool_name]
    THEN PyInt(FromNat(TOOL_COSTS[tool_name][tier]))
    ELSE NA

Capitalized ==
    K_ingestion :> <<"I","n","g","e","s","t","i","o","n">> @@ K_transformation :> <<"T","r","a","n","s","f","o","r","m","a","t","i","o","n">>
      @@ K_visualization :> <<"V","i","s","u","a","l","i","z","a","t","i","o","n">>

\* C10: for every suggestion record and tier, estimate_tool_costs does not raise
\* and returns one row per category of the record, in the record's order, with the
\* tool name, the capitalized category, and TOOL_COSTS[tool][tier] where the pair
\* exists and N/A elsewhere
C10_CostRows ==
    cost_rows.done =>
        LET items == cost_args.suggestions.v
        IN  /\ ~cost_rows.raised
            /\ Len(cost_rows.rows) = Len(items)
            /\ \A i \in 1..Len(items) :
                   LET tool_name == dict_get(items[i].v, K_tool, PyNone)
                   IN  cost_rows.rows[i] =
                           Row(tool_name, Capitalized[items[i].k],
                               TableCost(tool_name.v, cost_args.tier))

C10_Witness ==
    /\ cost_rows.done
    /\ cost_args = [suggestions |-> Suggestions(ToolInfo(T_ADF), ToolInfo(T_dbt),
                                                ToolInfo(T_UnknownTool)),
                    tier |-> "Medium"]
    /\ cost_rows.rows[2] = Row(PyStr(T_dbt), <<"T","r","a","n","s","f","o","r","m","a","t","i","o","n">>, PyInt(FromNat(500)))
    /\ cost_rows.rows[3] = Row(PyStr(T_UnknownTool), <<"V","i","s","u","a","l","i","z","a","t","i","o","n">>, NA)

LinearVariants == {"app", "app2", "app3"}

\* the names one after the other, a newline between each two
RECURSIVE NewlineJoined(_)
NewlineJoined(names) ==
    IF Len(names) = 0 THEN <<>>
    ELSE IF Len(names) = 1 THEN names[1]
    ELSE names[1] \o <<"\n">> \o NewlineJoined(Tail(names))

\* C11: in app, app2 and app3 the graph built for a request has the four nodes
\* Data Sources, Ingestion, Transformation, Visualization and the three edges of
\* the path through them in that order, and the Data Sources label is the
\* selected sources joined by newlines in selection order
C11_LinearGraph ==
    (variant \in LinearVariants /\ flowchart.built) =>
        /\ Len(data_sources) > 0
        /\ [i \in 1..Len(flowchart.nodes) |-> flowchart.nodes[i].name]
               = <<N_DataSources, N_Ingestion, N_Transformation, N_Visualization>>
        /\ flowchart.edges = <<<<N_DataSources, N_Ingestion>>,
                               <<N_Ingestion, N_Transformation>>,
                               <<N_Transformation, N_Visualization>>>>
        /\ flowchart.nodes[1].label = NewlineJoined(data_sources)

C11_Witness ==
    /\ variant \in LinearVariants /\ flowchart.built
    /\ data_sources = <<Src_GoogleAnalytics, Src_GoogleAds>>
    /\ flowchart.nodes[1].label = <<"G","o","o","g","l","e"," ","A","n","a","l","y","t","i","c","s","\n","G","o","o","g","l","e"," ","A","d","s">>

\* a step of the request failed: the call or a later statement raised, or the
\* run reported an error or a missing diagram
StepFailed ==
    /\ pc = "done" /\ oracle_calls > 0
    /\ uncaught # "none" \/ Has("error") \/ Has("warning")

\* C12: a request in which a step failed shows no success message and none of
\* the suggestion JSON, the diagram and the cost table
C12_NoPartialRender == StepFailed => ~Has("success") /\ ~Artefacts

\* the diagram has an edge from tail to head
HasEdge(tail, head) ==
    \E i \in 1..Len(flowchart.edges) : flowchart.edges[i] = <<tail, head>>

\* C13: in the diagram of app4 every node but Monitoring itself (each source
\* node and each of the eight layers) has an edge to the Monitoring node
C13_AllMonitored ==
    (variant = "app4" /\ flowchart.built) =>
        \A i \in 1..Len(flowchart.nodes) :
            flowchart.nodes[i].name # N_Monitoring =>
                HasEdge(flowchart.nodes[i].name, N_Monitoring)

\* the ingestion tools a suggestion record names: the items of a list, or the
\* one tool
IngestionTools(suggestions) ==
    LET named == dict_get(dict_get(suggestions, K_ingestion, PyDict(<<>>)), K_tool, PyNone)
    IN  IF named.t = "list" THEN Len(named.v) ELSE IF named.t = "str" THEN 1 ELSE 0

\* the edges of the diagram that leave a source's node
SourceEdges ==
    {i \in 1..Len(flowchart.edges) :
         \E j \in 1..Len(data_sources) : flowchart.edges[i][1] = source_node(data_sources[j])}

\* C14: in the layered diagram of app4 the edges from the sources' nodes to the
\* ingestion nodes are the cross product of the two: n sources and k suggested
\* ingestion tools give n * k edges, every one to an ingestion node
C14_CrossProduct ==
    (variant = "app4" /\ flowchart.built /\ IngestionTools(tool_suggestions) > 0) =>
        Cardinality(SourceEdges) = Len(data_sources) * IngestionTools(tool_suggestions)

NodeNames == {flowchart.nodes[i].name : i \in 1..Len(flowchart.nodes)}

\* C15: in the layered diagram of app4 every item has a node identifier of its
\* own, whatever the distinct source names are (a landmark's identifier and a
\* suggested tool's name among them): n sources give n + 9 nodes, no two with
\* the same identifier, and n + 12 edges, no two the same
C15_DistinctNodes ==
    (variant = "app4" /\ flowchart.built) =>
        /\ Len(flowchart.nodes) = Len(data_sources) + 9
        /\ Cardinality(NodeNames) = Len(data_sources) + 9
        /\ \A j \in 1..Len(data_sources) :
               flowchart.nodes[j] = Node(source_node(data_sources[j]), data_sources[j])
        /\ Len(flowchart.edges) = Len(data_sources) + 12
        /\ Cardinality(Range(flowchart.edges)) = Len(data_sources) + 12
        /\ \A i \in 1..Len(flowchart.edges) :
               flowchart.edges[i][1] \in NodeNames /\ flowchart.edges[i][2] \in NodeNames

C15_Witness ==
    /\ variant = "app4" /\ flowchart.built
    /\ data_sources = <<N_Monitoring, T_dbt>>
    /\ Len(flowchart.nodes) = 11
    /\ Len(flowchart.edges) = 14

\* C16: in app, app2 and app3, a reply that parses to an object with the three
\* categories, each naming a tool by a string, ends the request in success with
\* the suggestion JSON on the page, whatever the tools' names are
C16_ObjectReplySucceeds ==
    (/\ variant \in LinearVariants
     /\ Replied
     /\ response_text.json
     /\ ExpectedShape(response_text.value)) =>
        /\ uncaught = "none"
        /\ Has("success")
        /\ Has("code")

====
